---- MODULE Spec2Model ----
(***************************************************************************)
(* Model of sync.py: the local tree is scanned (build_files), the panel is *)
(* asked for its servers (build_server_list), and for every selected       *)
(* server the needed remote folders are created (create_folder, after      *)
(* folder_exists) and every file is uploaded (upload_file).                *)
(*                                                                         *)
(* Python strings are sequences of one-character strings, so that the path *)
(* arithmetic of the program (dirname, basename, strip, split, join,       *)
(* count) is computed the way the program computes it.                     *)
(***************************************************************************)
EXTENDS Integers, Sequences, FiniteSets, TLC

VARIABLES
    tree,      \* the local files below "upload": a set of paths, each a sequence of names
    DEBUG,     \* the DEBUG flag of the module
    files,     \* main: files, the (local_path, remote_path) pairs of build_files
    servers,   \* main: servers, the list build_server_list returned
    si,        \* main: position of the "for server in servers" loop (0 before it)
    plan,      \* main: sorted(dirs_to_make, ...) of the current server
    mat,       \* per directory of plan handled so far on the current server: how it ended
    up,        \* per file handled so far on the current server: how upload_file ended
    pc,        \* the statement the program is at
    err,       \* the exception that ended the program, "none" while there is none
    call,      \* the last request sent to the panel and how it was answered
    remote,    \* what each server's file system is known to hold: path -> "dir"/"file"/"absent"
    run,       \* how many times the program has been started
    matrun,    \* per server: the first run that materialized its whole plan, 0 if none
    reqs       \* how often each request has been sent to the current server in this run

vars == <<tree, DEBUG, files, servers, si, plan, mat, up, pc, err, call, remote, run, matrun, reqs>>

----------------------------------------------------------------------------
(* Bounds of the model *)

MaxDepth == 3      \* longest local path below upload/, in names (SpecPlan)
MaxFiles == 2      \* most files in the local tree (SpecPlan)
MaxServers == 2    \* most entries in the panel's server listing
MaxRuns == 2       \* most starts of the program against the same remote (SpecRerun)

\* names of local directories and files (SpecPlan)
DirNames == {<<"a">>, <<"b">>}
FileNames == {<<"f">>, <<"g">>}

\* names of local directories and files, some of them hidden (SpecScan)
ScanDirNames == {<<"a">>, <<".", "h">>}
ScanFileNames == {<<"f">>, <<".", "e">>}

\* the local trees of a whole run (Spec): empty, a file in the root only, one
\* folder, root and folder, nested folders, sibling folders
RunTrees ==
    { {},
      {<< <<"f">> >>},
      {<< <<"a">>, <<"f">> >>},
      {<< <<"f">> >>, << <<"a">>, <<"g">> >>},
      {<< <<"a">>, <<"f">> >>, << <<"a">>, <<"b">>, <<"g">> >>},
      {<< <<"a">>, <<"f">> >>, << <<"b">>, <<"g">> >>} }

\* the local trees of repeated runs (SpecRerun): a file in the root and one
\* in a folder, nested folders
RerunTrees ==
    { {<< <<"f">> >>, << <<"a">>, <<"g">> >>},
      {<< <<"a">>, <<"f">> >>, << <<"a">>, <<"b">>, <<"g">> >>} }

\* the local trees of runs in either debug mode (SpecDebug)
DebugTrees ==
    { {<< <<"f">> >>},
      {<< <<"a">>, <<"f">> >>} }

----------------------------------------------------------------------------
(* Python str methods and os.path (posixpath) functions used by sync.py *)

RECURSIVE lstrip(_, _)
lstrip(s, c) == IF s # <<>> /\ Head(s) = c THEN lstrip(Tail(s), c) ELSE s

RECURSIVE rstrip(_, _)
rstrip(s, c) ==
    IF s # <<>> /\ s[Len(s)] = c THEN rstrip(SubSeq(s, 1, Len(s) - 1), c) ELSE s

strip(s, c) == rstrip(lstrip(s, c), c)

\* str.find(c) + 1 and str.rfind(c) + 1: 0 when c does not occur
find(s, c) ==
    IF \E i \in 1..Len(s) : s[i] = c
    THEN CHOOSE i \in 1..Len(s) : s[i] = c /\ \A j \in 1..(i - 1) : s[j] # c
    ELSE 0

rfind(s, c) ==
    IF \E i \in 1..Len(s) : s[i] = c
    THEN CHOOSE i \in 1..Len(s) : s[i] = c /\ \A j \in (i + 1)..Len(s) : s[j] # c
    ELSE 0

RECURSIVE split(_, _)
split(s, c) ==
    IF find(s, c) = 0 THEN <<s>>
    ELSE <<SubSeq(s, 1, find(s, c) - 1)>> \o split(SubSeq(s, find(s, c) + 1, Len(s)), c)

RECURSIVE join(_, _)
join(sep, parts) ==
    IF parts = <<>> THEN <<>>
    ELSE IF Len(parts) = 1 THEN parts[1]
    ELSE parts[1] \o sep \o join(sep, Tail(parts))

count(s, c) == Cardinality({i \in 1..Len(s) : s[i] = c})

replace(s, a, b) == [i \in 1..Len(s) |-> IF s[i] = a THEN b ELSE s[i]]

startswith(s, p) == Len(p) <= Len(s) /\ SubSeq(s, 1, Len(p)) = p

\* "sub in s" for strings
contains(sub, s) ==
    \E i \in 1..(Len(s) - Len(sub) + 1) : SubSeq(s, i, i + Len(sub) - 1) = sub

\* posixpath.dirname
dirname(p) ==
    LET head == SubSeq(p, 1, rfind(p, "/"))
    IN  IF head # <<>> /\ (\E k \in 1..Len(head) : head[k] # "/")
        THEN rstrip(head, "/")
        ELSE head

\* posixpath.basename
basename(p) == SubSeq(p, rfind(p, "/") + 1, Len(p))

\* posixpath.join(a, b)
path_join(a, b) ==
    IF startswith(b, <<"/">>) THEN b
    ELSE IF a = <<>> \/ a[Len(a)] = "/" THEN a \o b
    ELSE a \o <<"/">> \o b

\* posixpath.relpath(p, start) for relative p and start without "." and ".." parts
relpath(p, start) ==
    LET start_list == SelectSeq(split(start, "/"), LAMBDA x : x # <<>>)
        path_list  == SelectSeq(split(p, "/"), LAMBDA x : x # <<>>)
        m == IF Len(start_list) < Len(path_list) THEN Len(start_list) ELSE Len(path_list)
        i == Cardinality({k \in 1..m :
                 \A j \in 1..k : start_list[j] = path_list[j]})
        rel_list == [k \in 1..(Len(start_list) - i) |-> <<".", ".">>]
                        \o SubSeq(path_list, i + 1, Len(path_list))
    IN  IF rel_list = <<>> THEN <<".">> ELSE join(<<"/">>, rel_list)

----------------------------------------------------------------------------
(* Module constants of sync.py *)

UPLOAD == <<"u", "p", "l", "o", "a", "d">>

exclude_servers == << <<"1", "v", "1">> >>

valid_images == << "docker.io/sples1/k4ryuu-cs2:latest" >>

----------------------------------------------------------------------------
(* build_files: the walk of upload/ *)

\* the test applied to the whole path instead of the last name
is_hidden_path(filepath) == startswith(filepath, <<".">>)

\* is_hidden on a platform that is not Windows
is_hidden(filepath) == startswith(basename(filepath), <<".">>)

\* some enumeration of a finite set, the order os.walk gets from the OS
SeqOf(S) ==
    CHOOSE s \in [1..Cardinality(S) -> S] : \A x \in S : \E i \in DOMAIN s : s[i] = x

RECURSIVE Flatten(_)
Flatten(ss) == IF ss = <<>> THEN <<>> ELSE Head(ss) \o Flatten(Tail(ss))

\* the local path of a file or directory of the tree, as os.path.join builds it
RECURSIVE LocalPath(_, _)
LocalPath(root, names) ==
    IF names = <<>> THEN root ELSE LocalPath(path_join(root, Head(names)), Tail(names))

\* os.walk from the directory at the names `at`, with the pruning of hidden
\* sub-directories and the skipping of hidden files
RECURSIVE walk(_, _)
walk(t, at) ==
    LET root   == LocalPath(UPLOAD, at)
        below  == {p \in t : Len(p) > Len(at) /\ SubSeq(p, 1, Len(at)) = at}
        fnames == {p[Len(at) + 1] : p \in {q \in below : Len(q) = Len(at) + 1}}
        dnames == {p[Len(at) + 1] : p \in {q \in below : Len(q) > Len(at) + 1}}
        dirs   == SeqOf({d \in dnames : ~is_hidden(path_join(root, d))})
        kept   == SeqOf({f \in fnames : ~is_hidden(path_join(root, f))})
        here   == [k \in 1..Len(kept) |->
                     LET local_path == path_join(root, kept[k])
                     IN  [local  |-> local_path,
                          remote |-> replace(relpath(local_path, UPLOAD), "\\", "/")]]
    IN  here \o Flatten([k \in 1..Len(dirs) |-> walk(t, Append(at, dirs[k]))])

build_files(t) == walk(t, <<>>)

\* the directories os.walk descends into from the directory at the names `at`,
\* that directory included: dirs[:] is pruned before the descent
RECURSIVE walked(_, _)
walked(t, at) ==
    LET root   == LocalPath(UPLOAD, at)
        below  == {p \in t : Len(p) > Len(at) /\ SubSeq(p, 1, Len(at)) = at}
        dnames == {p[Len(at) + 1] : p \in {q \in below : Len(q) > Len(at) + 1}}
        dirs   == {d \in dnames : ~is_hidden(path_join(root, d))}
    IN  {at} \cup UNION {walked(t, Append(at, d)) : d \in dirs}

----------------------------------------------------------------------------
(* The folder plan of main *)

\* "/" + os.path.dirname(remote_path).lstrip("/")
DirectoryOf(remote_path) == <<"/">> \o lstrip(dirname(remote_path), "/")

\* only the directory that holds the file, without its parents
FinalDirectoryOf(remote_path) ==
    IF DirectoryOf(remote_path) # <<"/">> THEN {DirectoryOf(remote_path)} ELSE {}

\* the inner loop of main: every prefix of the directory of one file
PrefixesOf(remote_path) ==
    LET directory == DirectoryOf(remote_path)
        parts == split(strip(directory, "/"), "/")
    IN  IF directory # <<>> /\ directory # <<"/">>
        THEN {<<"/">> \o join(<<"/">>, SubSeq(parts, 1, i)) : i \in 1..Len(parts)}
        ELSE {}

dirs_to_make(fs) == UNION {PrefixesOf(fs[k].remote) : k \in 1..Len(fs)}

\* a sort by the length of the folder's own name
SortKeyByName(x) == Len(basename(x))

\* the key of the sort
SortKey(x) == count(x, "/")

RECURSIVE Perms(_)
Perms(S) ==
    IF S = {} THEN {<<>>}
    ELSE UNION {{<<x>> \o p : p \in Perms(S \ {x})} : x \in S}

\* sorted(dirs_to_make, key=...): the sort is stable and the set is iterated in
\* hash order, so the paths of one key come out in any order, the keys ascending
RECURSIVE SortedPlans(_)
SortedPlans(D) ==
    IF D = {} THEN {<<>>}
    ELSE LET least == CHOOSE k \in {SortKey(x) : x \in D} :
                          \A x \in D : k <= SortKey(x)
             first == {x \in D : SortKey(x) = least}
         IN  UNION {{p \o q : q \in SortedPlans(D \ first)} : p \in Perms(first)}

----------------------------------------------------------------------------
(* The panel *)

\* the servers the panel may list: attributes name, docker_image, uuid, identifier
Pool ==
    { [uuid |-> "u1", identifier |-> "s1",
       name |-> <<"S","e","r","v","e","r"," ","1","v","1"," ","A","r","e","n","a">>,
       docker_image |-> "docker.io/sples1/k4ryuu-cs2:latest"],
      [uuid |-> "u2", identifier |-> "s2",
       name |-> <<"S","u","r","f">>,
       docker_image |-> "docker.io/sples1/k4ryuu-cs2:latest"],
      [uuid |-> "u3", identifier |-> "s3",
       name |-> <<"D","e","v"," ","A","i","m">>,
       docker_image |-> "docker.io/sples1/k4ryuu-cs2:latest"],
      [uuid |-> "u4", identifier |-> "s4",
       name |-> <<"O","l","d">>,
       docker_image |-> "ghcr.io/other/image:latest"] }

Identifiers == {s.identifier : s \in Pool}

\* data["data"] of the listing: distinct servers of the pool, in any order
Listings ==
    UNION {Perms(S) : S \in {T \in SUBSET Pool : Cardinality(T) <= MaxServers}}

NoCall == [op |-> "none", sv |-> "none", dir |-> <<>>, name |-> <<>>, out |-> "none"]

\* what the panel can answer to each request: an HTTP status, a body that
\* cannot be read as the expected JSON, or no answer at all
Faults == {"ClientError", "TimeoutError"}
FetchOutcomes == {"200", "nonjson", "500"} \cup Faults
ListOutcomes == {"200", "malformed", "500"} \cup Faults
CreateOutcomes == {"204", "400", "500"} \cup Faults
UrlOutcomes == {"200", "500", "malformed"} \cup Faults
TransferOutcomes == {"200", "204", "500"} \cup Faults

Kind(id, path) == IF path \in DOMAIN remote[id] THEN remote[id][path] ELSE "unknown"

Observed(id, path, kind) ==
    IF kind = "unknown" THEN remote
    ELSE [remote EXCEPT ![id] = (path :> kind) @@ @]

ParentIsDir(id, root) == root = <<"/">> \/ Kind(id, root) = "dir"

\* what a listing of root that is answered `out` shows at root/name: a listing
\* is only answered 200 when root is a directory, and it shows what is there
ListedKinds(id, root, key, out) ==
    IF out # "200" THEN {Kind(id, key)}
    ELSE IF ~ParentIsDir(id, root) THEN {}
    ELSE IF Kind(id, key) = "unknown" THEN {"dir", "file", "absent"}
    ELSE {Kind(id, key)}

\* what is at root/name after a create request answered `out`: 204 creates a
\* folder that was not there, 400 refuses because an entry is there already or
\* because root is no directory
CreatedKinds(id, root, key, out) ==
    CASE out = "204" ->
            IF ParentIsDir(id, root) /\ Kind(id, key) \in {"absent", "unknown"}
            THEN {"dir"} ELSE {}
      [] out = "400" ->
            IF ~ParentIsDir(id, root) THEN {Kind(id, key)}
            ELSE IF Kind(id, key) = "unknown" THEN {"dir", "file"}
            ELSE {Kind(id, key)} \cap {"dir", "file"}
      [] OTHER -> {Kind(id, key)}

----------------------------------------------------------------------------
(* The functions of sync.py, as functions of the answer they get *)

\* fetch: the JSON body on status 200, None (here the empty listing) otherwise
fetch(out, body) == IF out = "200" THEN body ELSE <<>>

\* the loop over exclude_servers: its continue resumes that inner loop, so the
\* loop never skips the server
ExcludedByName(name) ==
    /\ \E k \in 1..Len(exclude_servers) : contains(exclude_servers[k], name)
    /\ FALSE

\* the filters without the test of the docker image
SelectedAnyImage(attrs) ==
    /\ ~ExcludedByName(attrs.name)
    /\ ~(DEBUG /\ ~contains(<<"D", "e", "v">>, attrs.name))

\* the filters of build_server_list on one entry of the listing
Selected(attrs) ==
    /\ ~ExcludedByName(attrs.name)
    /\ ~(DEBUG /\ ~contains(<<"D", "e", "v">>, attrs.name))
    /\ \E k \in 1..Len(valid_images) : valid_images[k] = attrs.docker_image

build_server_list(data) ==
    LET kept == SelectSeq(data, Selected)
    IN  [k \in 1..Len(kept) |->
            [UUID |-> kept[k].uuid, Identifier |-> kept[k].identifier, Name |-> kept[k].name]]

\* a listing that cannot be read counts as "the folder is there"
folder_exists_unless_known(out, kind) == out # "200" \/ kind = "dir"

\* folder_exists: True only for a readable listing that shows a folder of that name
folder_exists(out, kind) == out = "200" /\ kind = "dir"

\* every status counts as success
create_folder_any_status(status) == TRUE

\* create_folder after the existence check said no: the value returned for a status
create_folder(status) == status \in {"204", "400"}

\* the status of the destination request is not looked at
got_upload_url_unchecked(status) == TRUE

\* upload_file goes on to the transfer only when "resp.status != 200" is false
got_upload_url(status) == status = "200"

\* upload_file: the value returned for the status of the destination request
\* and, when a transfer followed, of the transfer
upload_file(dest, transfer) == IF dest # "200" THEN FALSE ELSE TRUE

\* "root = os.path.dirname(path) or '/'"
RootOf(path) == IF dirname(path) = <<>> THEN <<"/">> ELSE dirname(path)

\* the folders of the plan are all there as far as the program can tell
Materialized(p, m) ==
    Len(m) = Len(p) /\ \A k \in 1..Len(m) : m[k] \in {"exists", "created", "already"}

NoteMaterialized(id, p, m) ==
    IF Materialized(p, m) /\ matrun[id] = 0 THEN [matrun EXCEPT ![id] = run] ELSE matrun

\* uploads begin once the first folder of the plan is done
NextPcEager(p, m, u, fs) ==
    IF Len(m) = 0 /\ Len(p) > 0 THEN "exists"
    ELSE IF Len(u) < Len(fs) THEN "upload_url"
    ELSE IF Len(m) < Len(p) THEN "exists"
    ELSE "loop"

\* one more request of a kind for a folder or file of the current server
Sent(r, key) ==
    IF key \in DOMAIN r THEN [r EXCEPT ![key] = @ + 1] ELSE (key :> 1) @@ r

\* a file whose upload failed stays the next file
RetryFile(u, result) == IF result.sent THEN Append(u, result) ELSE u

\* "for (local, rel) in files": whatever upload_file returned, the next file is next
NextFile(u, result) == Append(u, result)

\* where main goes on after a folder or a file of the current server is done
NextPc(p, m, u, fs) ==
    IF Len(m) < Len(p) THEN "exists"
    ELSE IF Len(u) < Len(fs) THEN "upload_url"
    ELSE "loop"

\* an exception of the panel's answer is reported but only a lost connection
\* counts as an error of the run
ExitCodeLogged == IF err \in Faults THEN 1 ELSE 0

\* the exit status of "run(main())": an exception that leaves main ends the
\* interpreter with status 1
ExitCode == IF err # "none" THEN 1 ELSE 0

----------------------------------------------------------------------------
(* Initial states *)

InitCommon ==
    /\ DEBUG = FALSE
    /\ files = <<>>
    /\ servers = <<>>
    /\ si = 0
    /\ plan = <<>>
    /\ mat = <<>>
    /\ up = <<>>
    /\ pc = "start"
    /\ err = "none"
    /\ call = NoCall
    /\ remote = [id \in Identifiers |-> <<>>]
    /\ run = 1
    /\ matrun = [id \in Identifiers |-> 0]
    /\ reqs = <<>>

Init == tree \in RunTrees /\ InitCommon

InitRerun == tree \in RerunTrees /\ InitCommon

\* DEBUG is set by hand in the source: both settings
InitDebug ==
    /\ tree \in DebugTrees
    /\ DEBUG \in BOOLEAN
    /\ files = <<>>
    /\ servers = <<>>
    /\ si = 0
    /\ plan = <<>>
    /\ mat = <<>>
    /\ up = <<>>
    /\ pc = "start"
    /\ err = "none"
    /\ call = NoCall
    /\ remote = [id \in Identifiers |-> <<>>]
    /\ run = 1
    /\ matrun = [id \in Identifiers |-> 0]
    /\ reqs = <<>>

\* every set of at most k elements of S
RECURSIVE SubsetsUpTo(_, _)
SubsetsUpTo(S, k) ==
    IF k = 0 THEN {{}}
    ELSE LET smaller == SubsetsUpTo(S, k - 1)
         IN  smaller \cup {T \cup {x} : T \in smaller, x \in S}

PlanPaths ==
    {d \o <<f>> : d \in UNION {[1..n -> DirNames] : n \in 0..(MaxDepth - 1)},
                  f \in FileNames}

InitPlan == tree \in SubsetsUpTo(PlanPaths, MaxFiles) /\ InitCommon

ScanPaths ==
    {d \o <<f>> : d \in UNION {[1..n -> ScanDirNames] : n \in 0..(MaxDepth - 1)},
                  f \in ScanFileNames}

InitScan == tree \in SubsetsUpTo(ScanPaths, MaxFiles) /\ InitCommon

----------------------------------------------------------------------------
(* Actions *)

\* files = build_files()
BuildFiles ==
    /\ pc = "start"
    /\ files' = build_files(tree)
    /\ pc' = "fetch"
    /\ UNCHANGED <<tree, DEBUG, servers, si, plan, mat, up, err, call, remote, run, matrun, reqs>>

\* servers = await build_server_list()
BuildServerList ==
    /\ pc = "fetch"
    /\ \E out \in FetchOutcomes, body \in Listings :
          /\ out # "200" => body = <<>>
          /\ servers' = build_server_list(fetch(out, body))
          /\ call' = [NoCall EXCEPT !.op = "servers", !.out = out]
    /\ pc' = "loop"
    /\ UNCHANGED <<tree, DEBUG, files, si, plan, mat, up, err, remote, run, matrun, reqs>>

\* the head of "for server in servers", with the folder plan of the server
ServerLoop ==
    /\ pc = "loop"
    /\ \/ /\ si < Len(servers)
          /\ si' = si + 1
          /\ plan' \in SortedPlans(dirs_to_make(files))
          /\ si >= 1 => plan' = plan
          /\ mat' = <<>>
          /\ up' = <<>>
          /\ pc' = NextPc(plan', <<>>, <<>>, files)
          /\ matrun' = NoteMaterialized(servers[si'].Identifier, plan', <<>>)
          /\ reqs' = <<>>
       \/ /\ si >= Len(servers)
          /\ pc' = "done"
          /\ UNCHANGED <<si, plan, mat, up, matrun, reqs>>
    /\ UNCHANGED <<tree, DEBUG, files, servers, err, call, remote, run>>

\* create_folder up to the answer to folder_exists
CheckFolder ==
    /\ pc = "exists"
    /\ LET id   == servers[si].Identifier
           path == plan[Len(mat) + 1]
           name == basename(path)
           root == RootOf(path)
           key  == path_join(root, name)
       IN  \E out \in ListOutcomes :
           \E kind \in ListedKinds(id, root, key, out) :
              /\ reqs' = Sent(reqs, <<"list", root, name>>)
              /\ call' = [op |-> "list", sv |-> id, dir |-> root, name |-> name, out |-> out]
              /\ remote' = Observed(id, key, kind)
              /\ IF folder_exists(out, kind)
                 THEN /\ mat' = Append(mat, "exists")
                      /\ pc' = NextPc(plan, mat', up, files)
                 ELSE /\ mat' = mat
                      /\ pc' = "create"
              /\ matrun' = NoteMaterialized(id, plan, mat')
    /\ UNCHANGED <<tree, DEBUG, files, servers, si, plan, up, err, run>>

\* create_folder from the create request on, and the raise of main
CreateFolder ==
    /\ pc = "create"
    /\ LET id   == servers[si].Identifier
           path == plan[Len(mat) + 1]
           name == basename(path)
           root == RootOf(path)
           key  == path_join(root, name)
       IN  \E out \in CreateOutcomes :
           \E kind \in CreatedKinds(id, root, key, out) :
              /\ reqs' = Sent(reqs, <<"create", root, name>>)
              /\ call' = [op |-> "create", sv |-> id, dir |-> root, name |-> name, out |-> out]
              /\ remote' = Observed(id, key, kind)
              /\ IF out \in Faults
                 THEN /\ mat' = mat
                      /\ pc' = "crashed"
                      /\ err' = out
                 ELSE IF create_folder(out)
                 THEN /\ mat' = Append(mat, IF out = "204" THEN "created" ELSE "already")
                      /\ pc' = NextPc(plan, mat', up, files)
                      /\ err' = err
                 ELSE /\ mat' = Append(mat, "failed")
                      /\ pc' = "crashed"
                      /\ err' = "Exception"
              /\ matrun' = NoteMaterialized(id, plan, mat')
    /\ UNCHANGED <<tree, DEBUG, files, servers, si, plan, up, run>>

\* upload_file, step 1: the request for the signed URL
RequestUploadUrl ==
    /\ pc = "upload_url"
    /\ LET id   == servers[si].Identifier
           file == files[Len(up) + 1]
       IN  \E out \in UrlOutcomes :
              /\ reqs' = Sent(reqs, <<"upload_url", DirectoryOf(file.remote), basename(file.local)>>)
              /\ call' = [op |-> "upload_url", sv |-> id, dir |-> DirectoryOf(file.remote),
                          name |-> basename(file.local), out |-> out]
              /\ IF out \in Faults \/ out = "malformed"
                 THEN /\ up' = up
                      /\ pc' = "crashed"
                      /\ err' = IF out = "malformed" THEN "ContentTypeError" ELSE out
                 ELSE IF got_upload_url(out)
                 THEN /\ up' = up
                      /\ pc' = "upload"
                      /\ err' = err
                 ELSE /\ up' = NextFile(up, [ret |-> upload_file(out, "none"), sent |-> FALSE])
                      /\ pc' = NextPc(plan, mat, up', files)
                      /\ err' = err
    /\ UNCHANGED <<tree, DEBUG, files, servers, si, plan, mat, remote, run, matrun>>

\* upload_file, step 2: the transfer to the signed URL
TransferFile ==
    /\ pc = "upload"
    /\ LET id   == servers[si].Identifier
           file == files[Len(up) + 1]
       IN  \E out \in TransferOutcomes :
              /\ reqs' = Sent(reqs, <<"transfer", DirectoryOf(file.remote), basename(file.local)>>)
              /\ call' = [op |-> "transfer", sv |-> id, dir |-> DirectoryOf(file.remote),
                          name |-> basename(file.local), out |-> out]
              /\ IF out \in Faults
                 THEN /\ up' = up
                      /\ pc' = "crashed"
                      /\ err' = out
                 ELSE /\ up' = NextFile(up, [ret |-> upload_file("200", out),
                                             sent |-> out \in {"200", "204"}])
                      /\ pc' = NextPc(plan, mat, up', files)
                      /\ err' = err
    /\ UNCHANGED <<tree, DEBUG, files, servers, si, plan, mat, remote, run, matrun>>

\* the folder plan alone: dirs_to_make and its sort
PlanFolders ==
    /\ pc = "fetch"
    /\ plan' \in SortedPlans(dirs_to_make(files))
    /\ pc' = "planned"
    /\ UNCHANGED <<tree, DEBUG, files, servers, si, mat, up, err, call, remote, run, matrun, reqs>>

\* the program is started again, against the remote as the last run left it
Restart ==
    /\ pc \in {"done", "crashed"}
    /\ run < MaxRuns
    /\ run' = run + 1
    /\ files' = <<>>
    /\ servers' = <<>>
    /\ si' = 0
    /\ plan' = <<>>
    /\ mat' = <<>>
    /\ up' = <<>>
    /\ pc' = "start"
    /\ err' = "none"
    /\ call' = NoCall
    /\ reqs' = <<>>
    /\ UNCHANGED <<tree, DEBUG, remote, matrun>>

Next ==
    \/ BuildFiles
    \/ BuildServerList
    \/ ServerLoop
    \/ CheckFolder
    \/ CreateFolder
    \/ RequestUploadUrl
    \/ TransferFile

Spec == Init /\ [][Next]_vars

NextPlan == BuildFiles \/ PlanFolders

SpecPlan == InitPlan /\ [][NextPlan]_vars

SpecScan == InitScan /\ [][NextPlan]_vars

SpecDebug == InitDebug /\ [][Next]_vars

NextRerun == Next \/ Restart

SpecRerun == InitRerun /\ [][NextRerun]_vars

----------------------------------------------------------------------------
(* Properties *)

Terminated == pc \in {"done", "crashed"}

UploadOps == {"upload_url", "transfer"}

\* the create request of server number a was answered by a status that
\* create_folder does not accept
FatalOn(a) == a = si /\ mat # <<>> /\ mat[Len(mat)] = "failed"

\* server number b has had all its folders materialized and all its files handled
FullyProcessed(b) ==
    \/ b < si
    \/ b = si /\ Materialized(plan, mat) /\ Len(up) = Len(files)

\* C1: target isolation. When the run has ended and the folder creation of
\* server A failed fatally, every server B after A in the list has been fully
\* processed.
C1_TargetIsolation ==
    Terminated =>
        \A a, b \in 1..Len(servers) : (FatalOn(a) /\ a < b) => FullyProcessed(b)

\* the upload of file number x of the current server failed, in either phase
UploadFailed(x) ==
    \/ x <= Len(up) /\ ~up[x].sent
    \/ x = Len(up) + 1 /\ pc = "crashed" /\ call.op \in UploadOps

UploadAttempted(y) ==
    \/ y <= Len(up)
    \/ y = Len(up) + 1 /\ (pc = "upload" \/ (pc = "crashed" /\ call.op \in UploadOps))

\* C2: upload independence. When the run has ended, a failed upload of file X
\* has not stopped the server, and every later file Y of the server has been
\* attempted.
C2_UploadIndependence ==
    Terminated =>
        \A x \in 1..Len(files) :
            UploadFailed(x) =>
                /\ ~(pc = "crashed" /\ call.op \in UploadOps)
                /\ \A y \in (x + 1)..Len(files) : UploadAttempted(y)

IsProperAncestor(p, q) ==
    Len(p) < Len(q) /\ SubSeq(q, 1, Len(p)) = p /\ q[Len(p) + 1] = "/"

\* the folders above a path, read off the places of its slashes
AncestorsOf(path) ==
    {<<"/">> \o SubSeq(path, 1, k - 1) : k \in {i \in 1..Len(path) : path[i] = "/"}}

\* C3: topological order. In the plan every proper ancestor folder of a
\* planned folder is planned too, at a smaller index, so that create_folder is
\* called for a parent before any of its children.
C3_TopologicalOrder ==
    pc = "planned" =>
        /\ \A i, j \in 1..Len(plan) : IsProperAncestor(plan[i], plan[j]) => i < j
        /\ \A j \in 1..Len(plan) :
              \A q \in AncestorsOf(Tail(plan[j])) : \E i \in 1..(j - 1) : plan[i] = q

C3_Witness ==
    /\ pc = "planned"
    /\ Len(plan) >= 3
    /\ \E i, j \in 1..Len(plan) : IsProperAncestor(plan[i], plan[j])
    /\ \E i, j \in 1..Len(plan) : i # j /\ SortKey(plan[i]) = SortKey(plan[j])

C5_Idempotence ==
    ~(/\ pc = "create"
      /\ call.op = "list"
      /\ call.out = "200"
      /\ matrun[call.sv] # 0
      /\ matrun[call.sv] < run)

\* C6: denylist. No server of the list build_server_list returned has a
\* name that contains an entry of exclude_servers, and no request goes to one.
C6_Denylist ==
    \A k \in 1..Len(servers) :
        \A e \in 1..Len(exclude_servers) : ~contains(exclude_servers[e], servers[k].Name)

\* the last request was a create request answered by a status other than 204 and 400
FatalCreate == call.op = "create" /\ call.out \notin ({"204", "400"} \cup Faults)

\* C7: a fatal create failure stops the target. After a create request was
\* answered by a status other than 204 and 400 the program has stopped: no
\* step, and so no request, follows.
C7_FatalCreateStops == FatalCreate => (pc = "crashed" /\ ~ENABLED Next)

C7_Witness ==
    /\ FatalCreate
    /\ Len(mat) < Len(plan)
    /\ files # <<>>
    /\ si < Len(servers)

\* the last request was an existence check and failed
ListFailed == call.op = "list" /\ call.out # "200"

\* C8: a failed existence check is never fatal. After a listing that was not
\* answered 200 with a readable body, the program has not stopped and is at
\* the create request for the same folder on the same server.
C8_ListFailureNotFatal ==
    ListFailed =>
        /\ pc = "create"
        /\ err = "none"
        /\ servers[si].Identifier = call.sv
        /\ plan[Len(mat) + 1] = path_join(call.dir, call.name)
        /\ ENABLED CreateFolder

C8_Witness ==
    /\ ListFailed
    /\ call.out = "TimeoutError"
    /\ Len(mat) = 1

\* the program is uploading to the current server
Uploading ==
    \/ pc \in {"upload_url", "upload"}
    \/ call.op \in UploadOps /\ si >= 1 /\ call.sv = servers[si].Identifier

\* C9: folders before uploads. While the program uploads to a server, every
\* folder of the plan has been found, created or answered "already exists"
\* on that server; and the servers are taken one after another, the next only
\* when the folders and files of the last are done.
C9_FoldersBeforeUploads ==
    /\ [](Uploading => Materialized(plan, mat))
    /\ [][si' # si =>
            /\ si' = si + 1
            /\ si >= 1 => (Materialized(plan, mat) /\ Len(up) = Len(files))]_vars

C9_Witness ==
    /\ call.op = "transfer"
    /\ si = 2
    /\ call.sv = servers[si].Identifier
    /\ Len(plan) = 2
    /\ \E k \in 1..Len(mat) : mat[k] = "created"
    /\ \E k \in 1..Len(mat) : mat[k] = "exists"

\* C10: timeouts and connection errors are not fatal. No request that ends
\* in a timeout or a connection error ends the program.
C10_NetworkFailuresNotFatal == err \notin Faults

HiddenName(name) == name # <<>> /\ name[1] = "."

AttrsOf(id) == CHOOSE s \in Pool : s.identifier = id

PassesFilters(attrs) ==
    /\ \E k \in 1..Len(valid_images) : valid_images[k] = attrs.docker_image
    /\ DEBUG => contains(<<"D", "e", "v">>, attrs.name)

\* C12: image allow-list and debug filter. Every server of the list has an
\* allowed image and, in debug mode, the marker in its name; dropping the
\* others raises nothing, and no request goes to a dropped server.
C12_ImageAndDebugFilters ==
    /\ \A k \in 1..Len(servers) : PassesFilters(AttrsOf(servers[k].Identifier))
    /\ call.sv # "none" => PassesFilters(AttrsOf(call.sv))
    /\ (pc = "loop" /\ si = 0) => err = "none"

C12_Witness ==
    /\ DEBUG
    /\ Len(servers) = 1
    /\ call.op = "transfer"
    /\ call.sv = "s3"

\* C13: failure exit. Once the folder creation of some server has failed
\* fatally, the run has ended and its exit status is not zero.
C13_FailureExit ==
    (mat # <<>> /\ mat[Len(mat)] = "failed") => (Terminated /\ ExitCode # 0)

C13_Witness ==
    /\ mat # <<>> /\ mat[Len(mat)] = "failed"
    /\ si = 2
    /\ Len(mat) = 2
    /\ mat[1] = "created"

\* the last request was a destination request answered by a status other than 200
UrlRefused == call.op = "upload_url" /\ call.out \notin ({"200", "malformed"} \cup Faults)

\* C14: two-phase upload. A transfer can only follow the destination request
\* of the same file on the same server, answered 200; after a destination
\* request answered by another status, while the program is at that server, no
\* transfer of that file follows and upload_file has returned False.
C14_TwoPhaseUpload ==
    /\ ENABLED TransferFile =>
          /\ call.op = "upload_url"
          /\ call.out = "200"
          /\ call.sv = servers[si].Identifier
          /\ call.name = basename(files[Len(up) + 1].local)
          /\ call.dir = DirectoryOf(files[Len(up) + 1].remote)
    /\ (UrlRefused /\ call.sv = servers[si].Identifier) =>
          /\ ~ENABLED TransferFile
          /\ up # <<>>
          /\ up[Len(up)] = [ret |-> FALSE, sent |-> FALSE]

C14_Witness ==
    /\ UrlRefused
    /\ Len(up) = 2
    /\ up[1].sent

\* C15: upload result. upload_file returns True for a file only when its
\* transfer was answered 200 or 204.
C15_UploadResult == \A k \in 1..Len(up) : up[k].ret => up[k].sent

\* C17: materialization postcondition. Whenever a destination request has
\* been sent for a file, the folder it is to go to is the root or is a
\* directory on that server.
C17_UploadFolderExists ==
    call.op = "upload_url" => (call.dir = <<"/">> \/ Kind(call.sv, call.dir) = "dir")

\* the requests a run may send to a server: a list and a create for a planned
\* directory, a destination request and a transfer for a file
PlannedRequests ==
    {<<op, RootOf(plan[k]), basename(plan[k])>> : op \in {"list", "create"}, k \in 1..Len(plan)}
    \cup {<<op, DirectoryOf(files[k].remote), basename(files[k].local)>> :
             op \in {"upload_url", "transfer"}, k \in 1..Len(files)}

SentOnce == \A key \in DOMAIN reqs : key \in PlannedRequests /\ reqs[key] = 1

\* an upper bound of the steps the run has left: one per request still to send
\* and one per head of the loop over the servers
StepsLeft ==
    LET fs        == IF pc = "start" THEN build_files(tree) ELSE files
        \* a remote path has fewer folders above it than characters
        dirs      == IF si >= 1 THEN Len(plan)
                     ELSE Cardinality(UNION {{<<k, i>> : i \in 1..Len(fs[k].remote)} :
                                               k \in 1..Len(fs)})
        perServer == 2 * dirs + 2 * Len(fs) + 1
        folders   == 2 * (Len(plan) - Len(mat)) - (IF pc = "create" THEN 1 ELSE 0)
        uploads   == 2 * (Len(files) - Len(up)) - (IF pc = "upload" THEN 1 ELSE 0)
        later     == (Len(servers) - si) * perServer + 1
    IN  CASE pc = "start" -> MaxServers * perServer + 3
          [] pc = "fetch" -> MaxServers * perServer + 2
          [] pc = "loop" -> later
          [] pc \in {"exists", "create", "upload_url", "upload"} -> folders + uploads + later
          [] OTHER -> 0

\* C16: no retry. In one run and for one target, each of the existence check
\* and the create request of a planned directory, and each of the destination
\* request and the transfer of a file, is sent at most once, and no other
\* request is sent to the target; every step of the run lowers a bound of the
\* steps left that never falls below zero, so the run terminates.
C16_NoRetry ==
    /\ [](SentOnce /\ StepsLeft >= 0)
    /\ [][StepsLeft' < StepsLeft]_vars

C16_Witness ==
    /\ pc = "done"
    /\ si = MaxServers
    /\ Len(files) = MaxFiles
    /\ plan # <<>>
    /\ \E k \in 1..Len(up) : ~up[k].sent
    /\ <<"create", RootOf(plan[1]), basename(plan[1])>> \in DOMAIN reqs
    /\ \E key \in DOMAIN reqs : key[1] = "transfer"

====
